---- MODULE Spec2Model ----
(***************************************************************************)
(* A model of src/src/App.js: the wage dashboard.                          *)
(*   - useCoefficients: the one-shot load of the coefficient map           *)
(*   - predictedUSD:    the linear predictor with log link and EUR->USD    *)
(*   - fmtUSD:          the display of the prediction                      *)
(*   - calcGroupExpr:   the position-group derivation (substring rules)    *)
(*   - wageHistSpec:    the histogram transform pipeline                   *)
(* Numbers are IEEE doubles restricted to integers, NaN and +-Infinity:    *)
(* [k |-> "fin", n |-> i], [k |-> "nan", n |-> 0], [k |-> "inf", n |-> s]. *)
(***************************************************************************)
EXTENDS Integers, Sequences, FiniteSets, TLC

VARIABLES
    posFilter,      \* useState("All"): the histogram filter
    age,            \* useState(24): a number, then the input's string
    rating,         \* useState(85)
    foot,           \* useState("Right")
    pg,             \* useState("Midfielder")
    coefs,          \* useCoefficients: useState({})
    loadState,      \* the fetch promise chain: pending, loaded, rejected
    response,       \* what the fetch delivered: none, failed, malformed, records
    conditions,     \* the conditions the page has surfaced (console, handlers)
    predictedUSD,   \* the useMemo value of the predictor
    wageHistSpec,   \* the useMemo value of the histogram spec
    shown,          \* the text rendered in <strong>: fmtUSD(predictedUSD)
    positions,      \* a positions text, as a sequence of characters
    group,          \* the group calcGroupExpr gave to that text
    dataset,        \* the rows of WAGES_URL
    derived,        \* the rows after the two calculate transforms
    filtered,       \* the rows after the filter transform
    bins,           \* the histogram: bin start -> count
    embedded        \* the posFilter of the spec the chart was embedded with

appVars  == <<posFilter, age, rating, foot, pg, coefs, loadState, response,
              conditions, predictedUSD, wageHistSpec, shown>>
textVars == <<positions, group>>
pipeVars == <<dataset, derived, filtered, bins, embedded>>
vars     == <<appVars, textVars, pipeVars>>

----------------------------------------------------------------------------
(* Program constants *)

TARGET_IS_LOG == TRUE

\* USD_PER_EUR = 1.08, in hundredths
USD_PER_EUR == 108

\* Math.exp overflows to +Infinity above 709.78 and underflows to 0 below -745.13
ExpOverflow == 710
ExpUnderflow == -746

----------------------------------------------------------------------------
(* Bounds *)

\* the longest coefficient array the resource holds
MaxBody == 2

----------------------------------------------------------------------------
(* IEEE arithmetic on integers, NaN and the infinities *)

F(i) == [k |-> "fin", n |-> i]
NaN == [k |-> "nan", n |-> 0]
Inf(s) == [k |-> "inf", n |-> s]

Sign(i) == IF i > 0 THEN 1 ELSE IF i < 0 THEN -1 ELSE 0

Add(a, b) ==
    IF a.k = "nan" \/ b.k = "nan" THEN NaN
    ELSE IF a.k = "inf" /\ b.k = "inf" THEN (IF a.n = b.n THEN a ELSE NaN)
    ELSE IF a.k = "inf" THEN a
    ELSE IF b.k = "inf" THEN b
    ELSE F(a.n + b.n)

Mul(a, b) ==
    IF a.k = "nan" \/ b.k = "nan" THEN NaN
    ELSE IF a.k = "inf" \/ b.k = "inf"
         THEN (IF Sign(a.n) * Sign(b.n) = 0 THEN NaN ELSE Inf(Sign(a.n) * Sign(b.n)))
    ELSE F(a.n * b.n)

\* JavaScript truthiness of a number: NaN and 0 are falsy
Truthy(x) == ~(x.k = "nan") /\ ~(x.k = "fin" /\ x.n = 0)

\* Math.exp: e^0 = 1 exactly; any other finite e^n is kept as [k |-> "exp", n |-> n]
Exp(x) ==
    IF x.k = "nan" THEN NaN
    ELSE IF x.k = "inf" THEN (IF x.n > 0 THEN Inf(1) ELSE F(0))
    ELSE IF x.n >= ExpOverflow THEN Inf(1)
    ELSE IF x.n <= ExpUnderflow THEN F(0)
    ELSE IF x.n = 0 THEN F(1)
    ELSE [k |-> "exp", n |-> x.n]

\* wageEur * USD_PER_EUR: a finite integer w gives w*1.08, kept in hundredths
\* ("usd"); e^n gives 1.08*e^n ("expusd"), finite for every n below ExpOverflow
MulRate(w) ==
    IF w.k = "nan" THEN NaN
    ELSE IF w.k = "inf" THEN w
    ELSE IF w.k = "exp" THEN [k |-> "expusd", n |-> w.n]
    ELSE [k |-> "usd", n |-> USD_PER_EUR * w.n]

\* isFinite(x)
IsFinite(x) == x.k \notin {"nan", "inf"}

----------------------------------------------------------------------------
(* String to number: unary plus and Number() *)

NumericLiterals == {"0", "1", "2", "24", "85", "400", "-1"}

LiteralValue(s) ==
    CASE s = "0" -> 0 [] s = "1" -> 1 [] s = "2" -> 2 [] s = "24" -> 24
      [] s = "85" -> 85 [] s = "400" -> 400 [] s = "-1" -> -1

\* ToNumber of a string: "" is 0, a numeric literal is its value, "Infinity" and
\* "-Infinity" are the infinities, anything else is NaN
StringToNumber(s) ==
    IF s = "" THEN F(0)
    ELSE IF s = "Infinity" THEN Inf(1)
    ELSE IF s = "-Infinity" THEN Inf(-1)
    ELSE IF s \in NumericLiterals THEN F(LiteralValue(s))
    ELSE NaN

\* ToNumber of a JSON value or of an absent field:
\* [t |-> "num", n |-> i], [t |-> "str", s |-> s], [t |-> "null"], [t |-> "undef"]
ToNumber(v) ==
    IF v.t = "num" THEN F(v.n)
    ELSE IF v.t = "str" THEN StringToNumber(v.s)
    ELSE IF v.t = "null" THEN F(0)
    ELSE NaN

----------------------------------------------------------------------------
(* useCoefficients: the then-callback of the fetch chain *)

EmptyMap == [x \in {} |-> NaN]

Put(m, key, v) == [x \in DOMAIN m \cup {key} |-> IF x = key THEN v ELSE m[x]]

\* d.term and d.estimate of an array element: a record has its fields, any other
\* non-null element (a number, a string, a boolean) has neither
TermOf(d) == IF d.e = "rec" THEN d.term ELSE "undefined"
EstimateOf(d) == IF d.e = "rec" THEN d.estimate ELSE [t |-> "undef"]

RECURSIVE BuildMap(_, _)
\* arr.forEach((d) => (m[d.term] = +d.estimate)): a later element overwrites an
\* earlier one of the same term
BuildMap(items, m) ==
    IF items = <<>> THEN m
    ELSE BuildMap(Tail(items), Put(m, TermOf(Head(items)), ToNumber(EstimateOf(Head(items)))))

\* the callback throws a TypeError when arr has no forEach (not an array) or
\* when an element is null (d.term of null)
CallbackThrows(arr) ==
    \/ arr.j # "array"
    \/ \E i \in 1..Len(arr.items) : arr.items[i].e = "null"

\* the resource is what section 6 of the design calls a sequence of records
IsRecords(arr) ==
    /\ arr.j = "array"
    /\ \A i \in 1..Len(arr.items) : arr.items[i].e = "rec"

----------------------------------------------------------------------------
(* predictedUSD *)

\* a variant that defaults only an absent term: coefs[key] ?? 0
CoefOrZero_Nullish(c, key) ==
    IF key \in DOMAIN c THEN c[key] ELSE F(0)

\* coefs[key] || 0
CoefOrZero(c, key) ==
    IF key \in DOMAIN c /\ Truthy(c[key]) THEN c[key] ELSE F(0)

\* Number(age), Number(rating): the state is the initial number or the input's string
Number(v) == IF v.t = "num" THEN F(v.n) ELSE StringToNumber(v.s)

Eta(c, a, r, p, f) ==
    LET e0 == F(0)
        e1 == Add(e0, CoefOrZero(c, "Intercept"))
        e2 == Add(e1, Mul(CoefOrZero(c, "age"), Number(a)))
        e3 == Add(e2, Mul(CoefOrZero(c, "overall_rating"), Number(r)))
        e4 == Add(e3, CoefOrZero(c, "position_group_" \o p))
        e5 == Add(e4, CoefOrZero(c, "preferred_foot_" \o f))
    IN  e5

Predict(c, a, r, p, f) ==
    LET eta == Eta(c, a, r, p, f)
        wageEur == IF TARGET_IS_LOG THEN Exp(eta) ELSE eta
    IN  MulRate(wageEur)

----------------------------------------------------------------------------
(* fmtUSD *)

\* the nearest whole dollar of h hundredths, halves away from zero
RoundDollars(h) ==
    IF h >= 0 THEN (h + 50) \div 100 ELSE -((-h + 50) \div 100)

\* toLocaleString("en-US", currency USD, no fraction digits), without grouping
Currency(x) ==
    IF x.k = "usd"
    THEN (IF RoundDollars(x.n) < 0
          THEN "-$" \o ToString(-RoundDollars(x.n))
          ELSE "$" \o ToString(RoundDollars(x.n)))
    ELSE "$round(1.08*e^" \o ToString(x.n) \o ")"

\* the marker fmtUSD returns for a non-finite value (an em dash in the source)
Unavailable == "--"

\* a variant that tests isNaN(x) in place of !isFinite(x)
fmtUSD_OnlyNaN(x) == IF x.k = "nan" THEN Unavailable ELSE Currency(x)

fmtUSD(x) == IF ~IsFinite(x) THEN Unavailable ELSE Currency(x)

----------------------------------------------------------------------------
(* calcGroupExpr: a text is a sequence of characters *)

\* indexof(text, sub): the 0-based index of the first occurrence, or -1
RECURSIVE IndexFrom(_, _, _)
IndexFrom(text, sub, i) ==
    IF i + Len(sub) > Len(text) THEN -1
    ELSE IF SubSeq(text, i + 1, i + Len(sub)) = sub THEN i
    ELSE IndexFrom(text, sub, i + 1)

indexof(text, sub) == IndexFrom(text, sub, 0)

GK == <<"G", "K">>
CB == <<"C", "B">>
LB == <<"L", "B">>
RB == <<"R", "B">>
RWB == <<"R", "W", "B">>
LWB == <<"L", "W", "B">>
CM == <<"C", "M">>
CDM == <<"C", "D", "M">>
CAM == <<"C", "A", "M">>
RM == <<"R", "M">>
LM == <<"L", "M">>
RW == <<"R", "W">>
LW == <<"L", "W">>

\* a variant that tests the midfield codes before the defensive ones
calcGroupExpr_MidfieldFirst(text) ==
    IF indexof(text, GK) >= 0 THEN "Goalkeeper"
    ELSE IF (indexof(text, CM) >= 0 \/ indexof(text, CDM) >= 0 \/ indexof(text, CAM) >= 0
             \/ indexof(text, RM) >= 0 \/ indexof(text, LM) >= 0 \/ indexof(text, RW) >= 0
             \/ indexof(text, LW) >= 0) THEN "Midfielder"
    ELSE IF (indexof(text, CB) >= 0 \/ indexof(text, LB) >= 0 \/ indexof(text, RB) >= 0
             \/ indexof(text, RWB) >= 0 \/ indexof(text, LWB) >= 0) THEN "Defender"
    ELSE "Forward"

calcGroupExpr(text) ==
    IF indexof(text, GK) >= 0 THEN "Goalkeeper"
    ELSE IF (indexof(text, CB) >= 0 \/ indexof(text, LB) >= 0 \/ indexof(text, RB) >= 0
             \/ indexof(text, RWB) >= 0 \/ indexof(text, LWB) >= 0) THEN "Defender"
    ELSE IF (indexof(text, CM) >= 0 \/ indexof(text, CDM) >= 0 \/ indexof(text, CAM) >= 0
             \/ indexof(text, RM) >= 0 \/ indexof(text, LM) >= 0 \/ indexof(text, RW) >= 0
             \/ indexof(text, LW) >= 0) THEN "Midfielder"
    ELSE "Forward"

----------------------------------------------------------------------------
(* wageHistSpec *)

\* filterExpr: "true", or datum.group == '<posFilter>'
FilterExpr(pf) ==
    IF pf = "All" THEN [test |-> "true"] ELSE [test |-> "group ==", lit |-> pf]

\* a variant whose transform list filters before it derives the group
HistSpec_FilterFirst(pf) ==
    [transform |-> << [op |-> "filter", expr |-> FilterExpr(pf)],
                      [op |-> "calculate", expr |-> "calcGroupExpr", as |-> "group"],
                      [op |-> "calculate", expr |-> "USD_PER_EUR * wage_euro", as |-> "wage_usd"] >>,
     maxbins |-> 30,
     aggregate |-> "count"]

\* the transform list and the encoding of the histogram spec
HistSpec(pf) ==
    [transform |-> << [op |-> "calculate", expr |-> "calcGroupExpr", as |-> "group"],
                      [op |-> "calculate", expr |-> "USD_PER_EUR * wage_euro", as |-> "wage_usd"],
                      [op |-> "filter", expr |-> FilterExpr(pf)] >>,
     maxbins |-> 30,
     aggregate |-> "count"]

----------------------------------------------------------------------------
(* The histogram's pipeline, as the chart runs the spec: the transforms in the
   order of the list, then the binned count of wage_usd.  A row is a function
   from field names to values; wage_usd is kept in hundredths. *)

\* a calculate expression on a row
EvalCalculate(expr, row) ==
    IF expr = "calcGroupExpr" THEN calcGroupExpr(row["positions"])
    ELSE USD_PER_EUR * row["wage_euro"]

\* a filter expression on a row; a field the row lacks is undefined and equals
\* no string
EvalFilter(expr, row) ==
    IF expr.test = "true" THEN TRUE
    ELSE "group" \in DOMAIN row /\ row["group"] = expr.lit

ApplyTransform(rows, tr) ==
    IF tr.op = "calculate"
    THEN [i \in 1..Len(rows) |-> Put(rows[i], tr.as, EvalCalculate(tr.expr, rows[i]))]
    ELSE LET Keep(row) == EvalFilter(tr.expr, row) IN SelectSeq(rows, Keep)

RECURSIVE RunTransforms(_, _)
RunTransforms(rows, trs) ==
    IF trs = <<>> THEN rows
    ELSE RunTransforms(ApplyTransform(rows, Head(trs)), Tail(trs))

RECURSIVE Pow10(_)
Pow10(e) == IF e = 0 THEN 1 ELSE 10 * Pow10(e - 1)

\* the bin widths the binning chooses from: 1, 2 and 5 times a power of ten
NiceSteps == {m * Pow10(e) : m \in {1, 2, 5}, e \in 0..6}

SetMin(S) == CHOOSE x \in S : \A y \in S : x <= y
SetMax(S) == CHOOSE x \in S : \A y \in S : x >= y

\* the least nice width that covers the span with at most maxbins bins
BinStep(span, maxbins) == SetMin({st \in NiceSteps : span <= st * maxbins})

Values(rows) == {rows[i]["wage_usd"] : i \in 1..Len(rows)}

BinStart(rows, maxbins) ==
    LET lo == SetMin(Values(rows))
        st == BinStep(SetMax(Values(rows)) - lo, maxbins)
    IN  (lo \div st) * st

\* the number of bins between the floored minimum and the ceiled maximum
BinCount(rows, maxbins) ==
    LET hi == SetMax(Values(rows))
        st == BinStep(hi - SetMin(Values(rows)), maxbins)
        n == ((hi + st - 1) \div st) - (BinStart(rows, maxbins) \div st)
    IN  IF n = 0 THEN 1 ELSE n

\* a variant with half-open bins and no clamp: a value on the last edge is in no bin
BinIndex_NoClamp(rows, maxbins, v) ==
    LET st == BinStep(SetMax(Values(rows)) - SetMin(Values(rows)), maxbins)
    IN  (v - BinStart(rows, maxbins)) \div st

\* the index of the bin of v: a value on the last edge belongs to the last bin
BinIndex(rows, maxbins, v) ==
    LET st == BinStep(SetMax(Values(rows)) - SetMin(Values(rows)), maxbins)
        ix == (v - BinStart(rows, maxbins)) \div st
    IN  IF ix >= BinCount(rows, maxbins) THEN BinCount(rows, maxbins) - 1 ELSE ix

\* aggregate count by bin: the bins that hold a row, each with its count
Histogram(rows, maxbins) ==
    IF rows = <<>> THEN EmptyMap
    ELSE LET InBin(b) == {i \in 1..Len(rows) : BinIndex(rows, maxbins, rows[i]["wage_usd"]) = b}
         IN  [b \in {c \in 0..(BinCount(rows, maxbins) - 1) : InBin(c) # {}}
                 |-> Cardinality(InBin(b))]

\* the filter value a histogram spec was built from
SpecFilter(spec) ==
    LET fe == (CHOOSE i \in 1..Len(spec.transform) : spec.transform[i].op = "filter")
    IN  IF spec.transform[fe].expr.test = "true" THEN "All"
        ELSE spec.transform[fe].expr.lit

----------------------------------------------------------------------------
(* The inputs the page's controls and the coefficient resource can give *)

PosFilterOptions == {"All", "Defender", "Midfielder", "Forward", "Goalkeeper"}
PgOptions == {"Defender", "Midfielder", "Forward", "Goalkeeper"}
FootOptions == {"Right", "Left"}

\* e.target.value of a number input: a numeric string, or "" when the field is
\* empty or holds no number
AgeInputs == {[t |-> "str", s |-> ""], [t |-> "str", s |-> "2"]}
RatingInputs == {[t |-> "str", s |-> "1"]}

BodyTerms == {"Intercept", "age", "overall_rating", "position_group_Midfielder"}
BodyEstimates ==
    {[t |-> "num", n |-> 1], [t |-> "num", n |-> 400], [t |-> "str", s |-> "abc"],
     [t |-> "str", s |-> "-Infinity"]}
BodyElements ==
    {[e |-> "rec", term |-> tm, estimate |-> es] : tm \in BodyTerms, es \in BodyEstimates}
        \cup {[e |-> "null"], [e |-> "prim"]}

SeqsUpTo(S, n) == UNION {[1..k -> S] : k \in 0..n}

\* what r.json() can resolve to: an array of elements, or a value that is no array
ParsedBodies ==
    {[j |-> "array", items |-> it] : it \in SeqsUpTo(BodyElements, MaxBody)}
        \cup {[j |-> "other"]}

----------------------------------------------------------------------------
(* App: the state after the first render, and one action per event.  Every
   action ends with the re-render it causes: the two useMemo values are
   recomputed when one of their dependencies changed, and the prediction is
   formatted. *)

\* a variant whose dependency list leaves out coefs
MemoPredicted_NoCoefsDep(coefsSet, c, a, r, p, f) ==
    IF <<a, r, p, f>> # <<age, rating, pg, foot>>
    THEN Predict(c, a, r, p, f)
    ELSE predictedUSD

\* useMemo(..., [coefs, age, rating, pg, foot]); setCoefs always stores a new object
MemoPredicted(coefsSet, c, a, r, p, f) ==
    IF coefsSet \/ <<a, r, p, f>> # <<age, rating, pg, foot>>
    THEN Predict(c, a, r, p, f)
    ELSE predictedUSD

\* useMemo(..., [posFilter])
MemoHistSpec(pf) == IF pf # posFilter THEN HistSpec(pf) ELSE wageHistSpec

Render(coefsSet, c, a, r, p, f, pf) ==
    /\ predictedUSD' = MemoPredicted(coefsSet, c, a, r, p, f)
    /\ wageHistSpec' = MemoHistSpec(pf)
    /\ shown' = fmtUSD(predictedUSD')

AppInit ==
    /\ posFilter = "All"
    /\ age = [t |-> "num", n |-> 24]
    /\ rating = [t |-> "num", n |-> 85]
    /\ foot = "Right"
    /\ pg = "Midfielder"
    /\ coefs = EmptyMap
    /\ loadState = "pending"
    /\ response = "none"
    /\ conditions = {}
    /\ predictedUSD = Predict(EmptyMap, age, rating, pg, foot)
    /\ wageHistSpec = HistSpec("All")
    /\ shown = fmtUSD(predictedUSD)

\* a variant in which the filter and the predictor share the position group
SetPosFilter_SharedGroup(v) ==
    /\ posFilter' = v
    /\ pg' = IF v \in PgOptions THEN v ELSE pg
    /\ UNCHANGED <<age, rating, foot, coefs, loadState, response, conditions>>
    /\ Render(FALSE, coefs, age, rating, pg', foot, v)
    /\ UNCHANGED <<textVars, dataset, derived, filtered, bins, embedded>>

\* onChange of the position group filter
SetPosFilter(v) ==
    /\ posFilter' = v
    /\ UNCHANGED <<age, rating, foot, pg, coefs, loadState, response, conditions>>
    /\ Render(FALSE, coefs, age, rating, pg, foot, v)
    /\ UNCHANGED <<textVars, dataset, derived, filtered, bins, embedded>>

\* onChange of the age input
SetAge(v) ==
    /\ age' = v
    /\ UNCHANGED <<posFilter, rating, foot, pg, coefs, loadState, response, conditions>>
    /\ Render(FALSE, coefs, v, rating, pg, foot, posFilter)
    /\ UNCHANGED <<textVars, pipeVars>>

\* onChange of the rating input
SetRating(v) ==
    /\ rating' = v
    /\ UNCHANGED <<posFilter, age, foot, pg, coefs, loadState, response, conditions>>
    /\ Render(FALSE, coefs, age, v, pg, foot, posFilter)
    /\ UNCHANGED <<textVars, pipeVars>>

\* onChange of the predictor's position group
SetPg(v) ==
    /\ pg' = v
    /\ UNCHANGED <<posFilter, age, rating, foot, coefs, loadState, response, conditions>>
    /\ Render(FALSE, coefs, age, rating, v, foot, posFilter)
    /\ UNCHANGED <<textVars, pipeVars>>

\* onChange of the preferred foot
SetFoot(v) ==
    /\ foot' = v
    /\ UNCHANGED <<posFilter, age, rating, pg, coefs, loadState, response, conditions>>
    /\ Render(FALSE, coefs, age, rating, pg, v, posFilter)
    /\ UNCHANGED <<textVars, pipeVars>>

\* fetch(COEF_URL) rejects, or r.json() rejects: no then-callback runs and the
\* chain has no catch
LoadReject ==
    /\ loadState = "pending"
    /\ loadState' = "rejected"
    /\ response' = "failed"
    /\ conditions' = conditions \cup {"UnhandledRejection"}
    /\ UNCHANGED <<posFilter, age, rating, foot, pg, coefs, predictedUSD,
                   wageHistSpec, shown>>
    /\ UNCHANGED <<textVars, pipeVars>>

\* a variant whose effect has no dependency list: the fetch is started again
\* by every render, so a load can complete again
LoadResolve_Refetch(arr) ==
    /\ ~CallbackThrows(arr)
    /\ loadState' = "loaded"
    /\ response' = IF IsRecords(arr) THEN "records" ELSE "malformed"
    /\ coefs' = BuildMap(arr.items, EmptyMap)
    /\ Render(TRUE, coefs', age, rating, pg, foot, posFilter)
    /\ UNCHANGED <<posFilter, age, rating, foot, pg, conditions>>
    /\ UNCHANGED <<textVars, pipeVars>>

\* r.json() resolves to arr and the then-callback runs: it throws before
\* setCoefs, or it stores the map it built
LoadResolve(arr) ==
    /\ loadState = "pending"
    /\ response' = IF IsRecords(arr) THEN "records" ELSE "malformed"
    /\ IF CallbackThrows(arr)
       THEN /\ loadState' = "rejected"
            /\ conditions' = conditions \cup {"UnhandledRejection"}
            /\ UNCHANGED <<coefs, predictedUSD, wageHistSpec, shown>>
       ELSE /\ loadState' = "loaded"
            /\ UNCHANGED conditions
            /\ coefs' = BuildMap(arr.items, EmptyMap)
            /\ Render(TRUE, coefs', age, rating, pg, foot, posFilter)
    /\ UNCHANGED <<posFilter, age, rating, foot, pg>>
    /\ UNCHANGED <<textVars, pipeVars>>

AppNext ==
    \/ \E v \in PosFilterOptions : SetPosFilter(v)
    \/ \E v \in AgeInputs : SetAge(v)
    \/ \E v \in RatingInputs : SetRating(v)
    \/ \E v \in PgOptions : SetPg(v)
    \/ \E v \in FootOptions : SetFoot(v)
    \/ LoadReject
    \/ \E arr \in ParsedBodies : LoadResolve(arr)

\* Chart's effect: the spec changed, the chart is embedded again and the
\* pipeline runs over the rows of the data file
EmbedHist ==
    /\ embedded # SpecFilter(wageHistSpec)
    /\ embedded' = SpecFilter(wageHistSpec)
    /\ derived' = RunTransforms(dataset, SubSeq(wageHistSpec.transform, 1, 2))
    /\ filtered' = RunTransforms(dataset, wageHistSpec.transform)
    /\ bins' = Histogram(filtered', wageHistSpec.maxbins)
    /\ UNCHANGED <<appVars, textVars, dataset>>

\* the chart evaluates calcGroupExpr on a positions text
CalcGroup ==
    /\ group = ""
    /\ group' = calcGroupExpr(positions)
    /\ UNCHANGED <<appVars, pipeVars, positions>>

Init ==
    /\ AppInit
    /\ positions = <<>>
    /\ group = ""
    /\ dataset = <<>>
    /\ derived = <<>>
    /\ filtered = <<>>
    /\ bins = EmptyMap
    /\ embedded = "none"

Next == AppNext

Spec == Init /\ [][Next]_vars

----------------------------------------------------------------------------
(* calcGroupExpr over bounded texts *)

\* the most tokens a positions text is made of
MaxTokens == 3

Tokens ==
    {GK, CB, LB, RB, RWB, LWB, CM, CDM, CAM, RM, LM, RW, LW,
     <<"S", "T">>, <<"C", "F">>, <<",", " ">>, <<"g", "k">>, <<"B">>, <<"W">>}

RECURSIVE Flatten(_)
Flatten(ss) == IF ss = <<>> THEN <<>> ELSE Head(ss) \o Flatten(Tail(ss))

Texts == {Flatten(ss) : ss \in SeqsUpTo(Tokens, MaxTokens)}

TextInit ==
    /\ AppInit
    /\ positions \in Texts
    /\ group = ""
    /\ dataset = <<>>
    /\ derived = <<>>
    /\ filtered = <<>>
    /\ bins = EmptyMap
    /\ embedded = "none"

TextNext == CalcGroup

TextSpec == TextInit /\ [][TextNext]_vars

----------------------------------------------------------------------------
(* The histogram over bounded data files *)

\* the most rows the data file holds
MaxRows == 2

RowTexts == {GK, LB \o <<",", " ">> \o LM, <<"S", "T">>, CAM \o <<",", " ">> \o RW}
RowWages == {0, 50000}
Rows == {[positions |-> tx, wage_euro |-> w] : tx \in RowTexts, w \in RowWages}

PipeInit ==
    /\ AppInit
    /\ positions = <<>>
    /\ group = ""
    /\ dataset \in SeqsUpTo(Rows, MaxRows)
    /\ derived = <<>>
    /\ filtered = <<>>
    /\ bins = EmptyMap
    /\ embedded = "none"

PipeNext ==
    \/ \E v \in PosFilterOptions : SetPosFilter(v)
    \/ EmbedHist

PipeSpec == PipeInit /\ [][PipeNext]_vars

----------------------------------------------------------------------------
(* The predictor's terms for the current feature vector *)

UsedKeys == {"Intercept", "age", "overall_rating", "position_group_" \o pg,
             "preferred_foot_" \o foot}

Link(eta) == IF TARGET_IS_LOG THEN Exp(eta) ELSE eta

\* exp(0)*currencyRate under the log link, 0*currencyRate under the identity link
Baseline == IF TARGET_IS_LOG THEN [k |-> "usd", n |-> USD_PER_EUR]
                             ELSE [k |-> "usd", n |-> 0]

\* a term's contribution when only absence counts as 0
TermAbsentZero(c, key) == IF key \in DOMAIN c THEN c[key] ELSE F(0)

\* a term's contribution when absence and a NaN estimate count as 0
TermAbsentOrNaNZero(c, key) ==
    IF key \in DOMAIN c /\ c[key].k # "nan" THEN c[key] ELSE F(0)

EtaAbsentZero ==
    Add(Add(Add(Add(TermAbsentZero(coefs, "Intercept"),
                    Mul(TermAbsentZero(coefs, "age"), Number(age))),
                Mul(TermAbsentZero(coefs, "overall_rating"), Number(rating))),
            TermAbsentZero(coefs, "position_group_" \o pg)),
        TermAbsentZero(coefs, "preferred_foot_" \o foot))

EtaAbsentOrNaNZero ==
    Add(Add(Add(Add(TermAbsentOrNaNZero(coefs, "Intercept"),
                    Mul(TermAbsentOrNaNZero(coefs, "age"), Number(age))),
                Mul(TermAbsentOrNaNZero(coefs, "overall_rating"), Number(rating))),
            TermAbsentOrNaNZero(coefs, "position_group_" \o pg)),
        TermAbsentOrNaNZero(coefs, "preferred_foot_" \o foot))

----------------------------------------------------------------------------
(* Claims about the page *)

C4_AsStated ==
    response \in {"failed", "malformed"} =>
        /\ predictedUSD = Predict(EmptyMap, age, rating, pg, foot)
        /\ shown = fmtUSD(Baseline)

\* C5 as stated: when a term of the loaded map that the prediction uses has an
\* unparseable (NaN) estimate, its contribution is 0 and the page has surfaced a
\* MalformedCoefficient condition.
C5_AsStated ==
    (\E key \in UsedKeys : key \in DOMAIN coefs /\ coefs[key].k = "nan") =>
        /\ predictedUSD = MulRate(Link(EtaAbsentOrNaNZero))
        /\ "MalformedCoefficient" \in conditions

\* C6: a non-finite prediction is shown as the unavailable marker, a finite one
\* as a currency text that is not the marker.
C6_NonFiniteShowsMarker ==
    /\ ~IsFinite(predictedUSD) => shown = Unavailable
    /\ IsFinite(predictedUSD) => shown = Currency(predictedUSD) /\ shown # Unavailable

\* the prediction is NaN (an infinite age coefficient times an empty age)
C6_Witness ==
    /\ predictedUSD.k = "nan"
    /\ shown = Unavailable
    /\ loadState = "loaded"

\* C7: after every event the displayed prediction is the predictor applied to
\* the current coefficient map and the current feature vector.
C7_PredictionIsCurrent ==
    /\ predictedUSD = Predict(coefs, age, rating, pg, foot)
    /\ shown = fmtUSD(Predict(coefs, age, rating, pg, foot))

\* the load has completed with a map that changes the prediction, after the user
\* changed an input
C7_Witness ==
    /\ loadState = "loaded"
    /\ age = [t |-> "str", s |-> "2"]
    /\ pg = "Defender"
    /\ predictedUSD = [k |-> "expusd", n |-> 3]

\* C8: the coefficient map changes only at the one completion of the load, from
\* the empty map; once the load has ended neither it nor the load's state changes
\* again, and no user event changes it.
C8_CoefsSetOnceAtLoad ==
    [][/\ coefs' # coefs =>
            coefs = EmptyMap /\ loadState = "pending" /\ loadState' = "loaded"
       /\ loadState # "pending" => coefs' = coefs /\ loadState' = loadState
       /\ (<<posFilter, age, rating, pg, foot>>' # <<posFilter, age, rating, pg, foot>>)
            => coefs' = coefs]_vars

\* a non-empty map has been loaded and the user has changed inputs since
C8_Witness ==
    /\ loadState = "loaded"
    /\ coefs # EmptyMap
    /\ posFilter = "Forward"
    /\ foot = "Left"

\* C10: a change of the histogram filter leaves the feature vector, the map and
\* the prediction unchanged; a change of a predictor input or the end of the load
\* leaves the filter and the histogram spec unchanged, and the histogram spec is
\* always the one built from the filter.
C10_FilterAndPredictorIndependent ==
    [][/\ posFilter' # posFilter =>
            UNCHANGED <<age, rating, pg, foot, coefs, predictedUSD, shown>>
       /\ (<<age, rating, pg, foot, coefs, loadState>>' # <<age, rating, pg, foot, coefs, loadState>>)
            => UNCHANGED <<posFilter, wageHistSpec>>
       /\ wageHistSpec' = HistSpec(posFilter')]_vars

\* the filter and the predictor's position group were both changed, to
\* different values, and the load has completed
C10_Witness ==
    /\ posFilter = "Goalkeeper"
    /\ pg = "Forward"
    /\ loadState = "loaded"
    /\ wageHistSpec = HistSpec("Goalkeeper")

----------------------------------------------------------------------------
(* Claims about calcGroupExpr *)

\* sub occurs in text
Contains(text, sub) ==
    \E i \in 1..Len(text) : i + Len(sub) - 1 <= Len(text)
                            /\ \A j \in 1..Len(sub) : text[i + j - 1] = sub[j]

HasDefenderCode(text) == \E c \in {CB, LB, RB, RWB, LWB} : Contains(text, c)
HasMidfielderCode(text) == \E c \in {CM, CDM, CAM, RM, LM, RW, LW} : Contains(text, c)

\* C2: the rules are tried in the order Goalkeeper, Defender, Midfielder and the
\* first that matches decides, Forward otherwise; every text gets one of the four
\* groups; "LB, LM" and "RWB" are Defender, "ST" is Forward, "CAM, RW" is
\* Midfielder, "GK" is Goalkeeper.
C2_FirstMatchWins ==
    group # "" =>
        /\ group \in {"Goalkeeper", "Defender", "Midfielder", "Forward"}
        /\ group = "Goalkeeper" <=> Contains(positions, GK)
        /\ group = "Defender" <=> ~Contains(positions, GK) /\ HasDefenderCode(positions)
        /\ group = "Midfielder" <=>
               /\ ~Contains(positions, GK)
               /\ ~HasDefenderCode(positions)
               /\ HasMidfielderCode(positions)
        /\ group = "Forward" <=>
               /\ ~Contains(positions, GK)
               /\ ~HasDefenderCode(positions)
               /\ ~HasMidfielderCode(positions)
        /\ positions = <<"G", "K">> => group = "Goalkeeper"
        /\ positions = <<"L", "B", ",", " ", "L", "M">> => group = "Defender"
        /\ positions = <<"R", "W", "B">> => group = "Defender"
        /\ positions = <<"S", "T">> => group = "Forward"
        /\ positions = <<"C", "A", "M", ",", " ", "R", "W">> => group = "Midfielder"

\* the precedence case: "LB, LM" has been given its group
C2_Witness ==
    /\ positions = <<"L", "B", ",", " ", "L", "M">>
    /\ group = "Defender"

----------------------------------------------------------------------------
(* Claims about the histogram *)

\* the rows of the data file whose derived group is g
RowsOfGroup(g) == {i \in 1..Len(dataset) : calcGroupExpr(dataset[i]["positions"]) = g}

\* C3: with a filter value other than All, every row that survives the filter
\* has the filter value as its derived group and no row of that group is
\* dropped; with All, as many rows leave the filter as entered it.
C3_FilterKeepsExactlyTheGroup ==
    embedded # "none" =>
        /\ Len(derived) = Len(dataset)
        /\ embedded # "All" =>
              /\ \A i \in 1..Len(filtered) : filtered[i]["group"] = embedded
              /\ \A i \in 1..Len(filtered) :
                     calcGroupExpr(filtered[i]["positions"]) = embedded
              /\ Len(filtered) = Cardinality(RowsOfGroup(embedded))
        /\ embedded = "All" => Len(filtered) = Len(derived)

\* a filter other than All kept one row of two
C3_Witness ==
    /\ embedded = "Defender"
    /\ Len(dataset) = 2
    /\ Len(filtered) = 1
    /\ filtered[1]["group"] = "Defender"

RECURSIVE SumCounts(_, _)
SumCounts(h, S) ==
    IF S = {} THEN 0
    ELSE LET b == CHOOSE x \in S : TRUE IN h[b] + SumCounts(h, S \ {b})

\* C9: the per-bin counts of the histogram add up to the number of rows that
\* survived the filter; when none survived the series is empty.
C9_BinCountsSumToFiltered ==
    embedded # "none" =>
        /\ SumCounts(bins, DOMAIN bins) = Len(filtered)
        /\ filtered = <<>> => bins = EmptyMap

\* two rows survived, in two bins, the upper one on the last bin edge
C9_Witness ==
    /\ embedded = "Goalkeeper"
    /\ Len(filtered) = 2
    /\ Cardinality(DOMAIN bins) = 2

\* no row survived the filter of a data file that has rows
C9_EmptyWitness ==
    /\ embedded = "Forward"
    /\ Len(dataset) = 2
    /\ filtered = <<>>
    /\ bins = EmptyMap

====
